---- MODULE Spec2Model ----
(***************************************************************************)
(* A model of the real-time fan-out pipeline of macro-analyst:             *)
(*   - the Hub (internal/ws/hub.go): registry of clients, the Run loop,    *)
(*     registerClient / unregisterClient / broadcastMessage;               *)
(*   - the Client writer (WritePump) and the connection handler            *)
(*     (handleWebSocket / readLoop);                                       *)
(*   - the Ingestor (internal/ws/ingestor.go): event handler, coalescing   *)
(*     of the pending MultiUpdate, the throttled flush goroutine, Start    *)
(*     and Stop.                                                           *)
(* The specifications share the variables: Spec drives the Hub with its    *)
(* connection handlers and writers; SpecHubApi drives the Hub through its  *)
(* register / unregister / broadcast channels alone; SpecIngestor drives   *)
(* the Ingestor against the Hub's broadcast intake.                        *)
(***************************************************************************)
EXTENDS Integers, Sequences, FiniteSets, TLC

(***************************************************************************)
(* Bounds of the model.                                                    *)
(***************************************************************************)
\* number of payloads a producer offers to the Hub in a run of Spec
MaxPayloads == 3
\* capacity of Client.Send (256 in the source, scaled down)
ClientSendBufferSize == 2
\* capacity of Hub.broadcast (256 in the source, scaled down)
BroadcastBufferSize == 2
\* number of upstream events delivered in a run of SpecIngestor
MaxEvents == 3
\* number of Stop() calls in a run of SpecIngestor
MaxStops == 2
\* number of times one client is sent on Hub.register in a run of SpecHubApi
MaxRegisters == 2
\* entries the watch-list may hold
MaxSymbols == 3
\* payloads a producer offers in a burst
MaxBurst == 4

\* The connections the serving layer accepts in a run, one Client each.
Sinks == {"c1", "c2"}

VARIABLES
    \* ---- Hub ----
    clients,        \* Hub.clients: the set of registered clients
    broadcast,      \* Hub.broadcast: buffered channel, a sequence of payloads
    hubPc,          \* Hub.Run: "select" (waiting on its channels) or "fanout"
    hubMsg,         \* broadcastMessage's message: <<>> or <<m>>
    hubTodo,        \* clients the range loop of broadcastMessage has not visited
    evict,          \* per client: goroutines blocked in `h.unregister <- c`
    \* ---- Client ----
    send,           \* Client.Send: buffered channel contents
    sendClosed,     \* Client.Send has been closed
    closes,         \* per client: number of close(client.Send) executed
    connClosed,     \* Client.Conn has been closed locally
    written,        \* frames written to Client.Conn, in order
    writerPc,       \* WritePump goroutine: "none", "run", "done"
    connPc,         \* handleWebSocket: "idle","register","spawn","read",
                    \*                  "unregister","close","done"
    \* ---- producer / history ----
    nextPayload,    \* next payload a producer offers to the Hub
    dispatched,     \* payloads the Hub took from broadcast, in order
    panicked,       \* "none", or the runtime panic that ended the process
    regs,           \* per client: number of registerClient calls for it
    unregNoop,      \* per client: unregisterClient found it absent (else branch)
    \* ---- Ingestor ----
    symbols,        \* Ingestor.symbols: sequence of [Name, LastPrice,
                    \*                   LastUpdateAt]
    ctxDone,        \* Ingestor.ctx is cancelled
    doneChannels,   \* Ingestor.doneChannels: "open" / "closed" per handle
    doneCloses,     \* per handle: number of close(doneC) executed on it
    startPc,        \* StartMultiSymbol: "idle","connected","waiting","returned"
    subscribed,     \* the symbols of the open upstream subscription
    ticker,         \* throttleTicker: "none", "running", "stopped"
    tickC,          \* throttleTicker.C holds a tick (buffer of one)
    flushPc,        \* flush goroutine: "none","select","check","marshal",
                    \*                  "send","reset","exit"
    jsonData,       \* broadcastPendingUpdates' jsonData: <<>> or <<json>>
    heap,           \* the MultiUpdate objects allocated so far: their Data
    pendingUpdate,  \* StartMultiSymbol's pendingUpdate: 0 (nil) or an object
    hPc,            \* event handler: "idle","queue","update"
    priceUpdate,    \* the handler's priceUpdate: <<>> or <<update>>
    hRef,           \* updateOrAppendPrice's multiUpdate: 0 or an object
    now,            \* logical clock: number of events received
    lastEvent,      \* per symbol: Timestamp of the last event handled, or 0
    serialised,     \* Timestamps of the updates json.Marshal has serialised
    stops,          \* number of Stop() calls made
    removed,        \* the result of the last RemoveSymbol call
    \* ---- main ----
    mainPc          \* main's waitForShutdown: "wait","stop","shutdown","exit"

hubVars == <<clients, broadcast, hubPc, hubMsg, hubTodo, evict>>
clientVars == <<send, sendClosed, closes, connClosed, written, writerPc, connPc>>
histVars == <<nextPayload, dispatched, panicked, regs, unregNoop>>
\* what the Ingestor never touches: everything of the Hub but its intake
hubSideVars ==
    <<clients, hubPc, hubMsg, hubTodo, evict, clientVars, nextPayload, regs,
      unregNoop>>
\* ... and what the goroutines of the Ingestor leave alone: main's position
\* and the result of RemoveSymbol as well
hubOnlyVars == <<hubSideVars, mainPc, removed>>
ingVarsButFlushPc ==
    <<symbols, ctxDone, doneChannels, doneCloses, startPc, subscribed, ticker,
      tickC, jsonData, heap, pendingUpdate, hPc, priceUpdate, hRef, now,
      lastEvent, serialised, stops>>
\* what the Hub, the handlers and the writers never touch
ingVars == <<ingVarsButFlushPc, flushPc, mainPc, removed>>
vars == <<hubVars, clientVars, histVars, ingVars>>

(***************************************************************************)
(* Frames on a connection.                                                 *)
(***************************************************************************)
TextFrame(m) == [type |-> "text", data |-> <<m>>]
CloseFrame == [type |-> "close", data |-> <<>>]

(***************************************************************************)
(* Hub                                                                     *)
(***************************************************************************)
\* NewHub, a fresh Ingestor-less process: nothing registered, nothing queued.
HubInit ==
    /\ clients = {}
    /\ broadcast = <<>>
    /\ hubPc = "select"
    /\ hubMsg = <<>>
    /\ hubTodo = {}
    /\ evict = [c \in Sinks |-> 0]

ClientInit ==
    /\ send = [c \in Sinks |-> <<>>]
    /\ sendClosed = [c \in Sinks |-> FALSE]
    /\ closes = [c \in Sinks |-> 0]
    /\ connClosed = [c \in Sinks |-> FALSE]
    /\ written = [c \in Sinks |-> <<>>]
    /\ writerPc = [c \in Sinks |-> "none"]
    /\ connPc = [c \in Sinks |-> "idle"]

HistInit ==
    /\ nextPayload = 1
    /\ dispatched = <<>>
    /\ panicked = "none"
    /\ regs = [c \in Sinks |-> 0]
    /\ unregNoop = [c \in Sinks |-> FALSE]

\* a registerClient that only writes the log line
registerClientDropped(c) ==
    /\ UNCHANGED clients
    /\ regs' = [regs EXCEPT ![c] = @ + 1]

\* a registerClient that flips the membership of the client
registerClientToggle(c) ==
    /\ clients' = IF c \in clients THEN clients \ {c} ELSE clients \cup {c}
    /\ regs' = [regs EXCEPT ![c] = @ + 1]

\* Hub.registerClient: h.clients[client] = true (and the log line)
registerClient(c) ==
    /\ clients' = clients \cup {c}
    /\ regs' = [regs EXCEPT ![c] = @ + 1]

\* unregisterClient without `delete(h.clients, client)`: the channel is closed
\* but the client stays in the map.
unregisterClientNoDelete(c) ==
    IF c \in clients
    THEN /\ closes' = [closes EXCEPT ![c] = @ + 1]
         /\ IF sendClosed[c]
            THEN /\ panicked' = "close of closed channel"
                 /\ UNCHANGED <<clients, sendClosed>>
            ELSE /\ sendClosed' = [sendClosed EXCEPT ![c] = TRUE]
                 /\ UNCHANGED <<clients, panicked>>
         /\ UNCHANGED unregNoop
    ELSE /\ unregNoop' = [unregNoop EXCEPT ![c] = TRUE]
         /\ UNCHANGED <<clients, closes, sendClosed, panicked>>

\* unregisterClient without `close(client.Send)`.
unregisterClientNoClose(c) ==
    IF c \in clients
    THEN /\ clients' = clients \ {c}
         /\ UNCHANGED <<closes, sendClosed, panicked, unregNoop>>
    ELSE /\ unregNoop' = [unregNoop EXCEPT ![c] = TRUE]
         /\ UNCHANGED <<clients, closes, sendClosed, panicked>>

\* unregisterClient without the `exists` test: delete and close in any case.
unregisterClientUnguarded(c) ==
    /\ clients' = clients \ {c}
    /\ closes' = [closes EXCEPT ![c] = @ + 1]
    /\ unregNoop' = [unregNoop EXCEPT ![c] = @ \/ c \notin clients]
    /\ IF sendClosed[c]
       THEN /\ panicked' = "close of closed channel"
            /\ UNCHANGED sendClosed
       ELSE /\ sendClosed' = [sendClosed EXCEPT ![c] = TRUE]
            /\ UNCHANGED panicked

\* unregisterClient that ignores the request.
unregisterClientIgnored(c) ==
    UNCHANGED <<clients, closes, sendClosed, panicked, unregNoop>>

\* Hub.unregisterClient: delete from the map and close(client.Send) if present.
\* close() of an already closed channel is a runtime panic.
unregisterClient(c) ==
    IF c \in clients
    THEN /\ clients' = clients \ {c}
         /\ closes' = [closes EXCEPT ![c] = @ + 1]
         /\ IF sendClosed[c]
            THEN /\ panicked' = "close of closed channel"
                 /\ UNCHANGED sendClosed
            ELSE /\ sendClosed' = [sendClosed EXCEPT ![c] = TRUE]
                 /\ UNCHANGED panicked
         /\ UNCHANGED unregNoop
    ELSE /\ unregNoop' = [unregNoop EXCEPT ![c] = TRUE]
         /\ UNCHANGED <<clients, closes, sendClosed, panicked>>

\* Hub.GetClientCount
GetClientCount == Cardinality(clients)

\* broadcastMessage with a plain `client.Send <- message` (no default case).
trySendBlocking(c, m) ==
    IF sendClosed[c]
    THEN /\ panicked' = "send on closed channel"
         /\ UNCHANGED <<send, evict>>
    ELSE /\ Len(send[c]) < ClientSendBufferSize
         /\ send' = [send EXCEPT ![c] = Append(@, m)]
         /\ UNCHANGED <<evict, panicked>>

\* a select that puts the message at the head of the client's buffer
trySendPrepend(c, m) ==
    IF sendClosed[c]
    THEN /\ panicked' = "send on closed channel"
         /\ UNCHANGED <<send, evict>>
    ELSE IF Len(send[c]) < ClientSendBufferSize
         THEN /\ send' = [send EXCEPT ![c] = <<m>> \o @]
              /\ UNCHANGED <<evict, panicked>>
         ELSE /\ evict' = [evict EXCEPT ![c] = @ + 1]
              /\ UNCHANGED <<send, panicked>>

\* The select of broadcastMessage for one client:
\*   case client.Send <- message:   (room in the buffer)
\*   default: go func(c) { h.unregister <- c }(client)
\* A send on a closed channel is a runtime panic.
trySend(c, m) ==
    IF sendClosed[c]
    THEN /\ panicked' = "send on closed channel"
         /\ UNCHANGED <<send, evict>>
    ELSE IF Len(send[c]) < ClientSendBufferSize
         THEN /\ send' = [send EXCEPT ![c] = Append(@, m)]
              /\ UNCHANGED <<evict, panicked>>
         ELSE /\ evict' = [evict EXCEPT ![c] = @ + 1]
              /\ UNCHANGED <<send, panicked>>

\* Hub.Run, case client := <-h.register (the handler's send completes)
HubRegister(c) ==
    /\ panicked = "none"
    /\ hubPc = "select"
    /\ connPc[c] = "register"
    /\ registerClient(c)
    /\ connPc' = [connPc EXCEPT ![c] = "spawn"]
    /\ UNCHANGED <<broadcast, hubPc, hubMsg, hubTodo, evict>>
    /\ UNCHANGED <<send, sendClosed, closes, connClosed, written, writerPc>>
    /\ UNCHANGED <<nextPayload, dispatched, panicked, unregNoop>>
    /\ UNCHANGED ingVars

\* Hub.Run, case client := <-h.unregister, sent by handleWebSocket's defer
HubUnregister(c) ==
    /\ panicked = "none"
    /\ hubPc = "select"
    /\ connPc[c] = "unregister"
    /\ unregisterClient(c)
    /\ connPc' = [connPc EXCEPT ![c] = "close"]
    /\ UNCHANGED <<broadcast, hubPc, hubMsg, hubTodo, evict>>
    /\ UNCHANGED <<send, connClosed, written, writerPc>>
    /\ UNCHANGED <<nextPayload, dispatched, regs>>
    /\ UNCHANGED ingVars

\* Hub.Run, case client := <-h.unregister, sent by an eviction goroutine
HubEvict(c) ==
    /\ panicked = "none"
    /\ hubPc = "select"
    /\ evict[c] > 0
    /\ unregisterClient(c)
    /\ evict' = [evict EXCEPT ![c] = @ - 1]
    /\ UNCHANGED <<broadcast, hubPc, hubMsg, hubTodo>>
    /\ UNCHANGED <<send, connClosed, written, writerPc, connPc>>
    /\ UNCHANGED <<nextPayload, dispatched, regs>>
    /\ UNCHANGED ingVars

\* a broadcastMessage that ranges over every client ever constructed
HubBroadcastToAll ==
    /\ panicked = "none"
    /\ hubPc = "select"
    /\ broadcast # <<>>
    /\ broadcast' = Tail(broadcast)
    /\ dispatched' = Append(dispatched, Head(broadcast))
    /\ hubPc' = "fanout"
    /\ hubMsg' = <<Head(broadcast)>>
    /\ hubTodo' = Sinks
    /\ UNCHANGED <<clients, evict>>
    /\ UNCHANGED clientVars
    /\ UNCHANGED <<nextPayload, panicked, regs, unregNoop>>
    /\ UNCHANGED ingVars

\* Hub.Run, case message := <-h.broadcast: broadcastMessage starts its range
\* over h.clients (with no client the pass is over at once).
HubBroadcast ==
    /\ panicked = "none"
    /\ hubPc = "select"
    /\ broadcast # <<>>
    /\ broadcast' = Tail(broadcast)
    /\ dispatched' = Append(dispatched, Head(broadcast))
    /\ IF clients = {}
       THEN UNCHANGED <<hubPc, hubMsg, hubTodo>>
       ELSE /\ hubPc' = "fanout"
            /\ hubMsg' = <<Head(broadcast)>>
            /\ hubTodo' = clients
    /\ UNCHANGED <<clients, evict>>
    /\ UNCHANGED clientVars
    /\ UNCHANGED <<nextPayload, panicked, regs, unregNoop>>
    /\ UNCHANGED ingVars

\* a fan-out iteration that unregisters a full client on the spot
HubFanoutSyncRemove(c) ==
    /\ panicked = "none"
    /\ hubPc = "fanout"
    /\ c \in hubTodo
    /\ IF ~sendClosed[c] /\ Len(send[c]) >= ClientSendBufferSize
       THEN /\ unregisterClient(c)
            /\ UNCHANGED <<send, evict>>
       ELSE /\ trySend(c, hubMsg[1])
            /\ UNCHANGED <<clients, closes, sendClosed, unregNoop>>
    /\ hubTodo' = hubTodo \ {c}
    /\ IF hubTodo = {c}
       THEN hubPc' = "select" /\ hubMsg' = <<>>
       ELSE UNCHANGED <<hubPc, hubMsg>>
    /\ UNCHANGED broadcast
    /\ UNCHANGED <<connClosed, written, writerPc, connPc>>
    /\ UNCHANGED <<nextPayload, dispatched, regs>>
    /\ UNCHANGED ingVars

\* One iteration of `for client := range h.clients` (map order is arbitrary);
\* after the last one broadcastMessage returns and Run selects again.
HubFanout(c) ==
    /\ panicked = "none"
    /\ hubPc = "fanout"
    /\ c \in hubTodo
    /\ trySend(c, hubMsg[1])
    /\ hubTodo' = hubTodo \ {c}
    /\ IF hubTodo = {c}
       THEN hubPc' = "select" /\ hubMsg' = <<>>
       ELSE UNCHANGED <<hubPc, hubMsg>>
    /\ UNCHANGED <<clients, broadcast>>
    /\ UNCHANGED <<sendClosed, closes, connClosed, written, writerPc, connPc>>
    /\ UNCHANGED <<nextPayload, dispatched, regs, unregNoop>>
    /\ UNCHANGED ingVars

(***************************************************************************)
(* The Hub's channels used directly by a caller, as the tests of hub.go do: *)
(* `hub.register <- client` and `hub.unregister <- client` with any client  *)
(* at any time the Run loop selects.                                        *)
(***************************************************************************)
RegisterSend(c) ==
    /\ panicked = "none"
    /\ hubPc = "select"
    /\ regs[c] < MaxRegisters
    /\ registerClient(c)
    /\ UNCHANGED <<broadcast, hubPc, hubMsg, hubTodo, evict>>
    /\ UNCHANGED clientVars
    /\ UNCHANGED <<nextPayload, dispatched, panicked, unregNoop>>
    /\ UNCHANGED ingVars

UnregisterSend(c) ==
    /\ panicked = "none"
    /\ hubPc = "select"
    /\ unregisterClient(c)
    /\ UNCHANGED <<broadcast, hubPc, hubMsg, hubTodo, evict>>
    /\ UNCHANGED <<send, connClosed, written, writerPc, connPc>>
    /\ UNCHANGED <<nextPayload, dispatched, regs>>
    /\ UNCHANGED ingVars

(***************************************************************************)
(* Ingestor.sendToHub: non-blocking hand-off to Hub.broadcast              *)
(***************************************************************************)
\* a sendToHub that makes room by discarding the oldest payload
sendToHubEvictOldest(data) ==
    IF Len(broadcast) < BroadcastBufferSize
    THEN broadcast' = Append(broadcast, data)
    ELSE broadcast' = Append(Tail(broadcast), data)

sendToHub(data) ==
    IF Len(broadcast) < BroadcastBufferSize
    THEN broadcast' = Append(broadcast, data)
    ELSE UNCHANGED broadcast

\* A producer offers the next payload to the Hub (Spec only).
Produce ==
    /\ panicked = "none"
    /\ nextPayload <= MaxPayloads
    /\ sendToHub(nextPayload)
    /\ nextPayload' = nextPayload + 1
    /\ UNCHANGED <<clients, hubPc, hubMsg, hubTodo, evict>>
    /\ UNCHANGED clientVars
    /\ UNCHANGED <<dispatched, panicked, regs, unregNoop>>
    /\ UNCHANGED ingVars

\* A producer that offers a burst of MaxBurst payloads (SpecBurst only).
ProduceBurst ==
    /\ panicked = "none"
    /\ nextPayload <= MaxBurst
    /\ sendToHub(nextPayload)
    /\ nextPayload' = nextPayload + 1
    /\ UNCHANGED <<clients, hubPc, hubMsg, hubTodo, evict>>
    /\ UNCHANGED clientVars
    /\ UNCHANGED <<dispatched, panicked, regs, unregNoop>>
    /\ UNCHANGED ingVars

(***************************************************************************)
(* Connection handler: FiberServer.handleWebSocket                         *)
(***************************************************************************)
\* A connection is accepted: the client is constructed with an empty Send
\* buffer and the handler blocks in `s.Hub.Register() <- client`.
Connect(c) ==
    /\ panicked = "none"
    /\ connPc[c] = "idle"
    /\ connPc' = [connPc EXCEPT ![c] = "register"]
    /\ UNCHANGED hubVars
    /\ UNCHANGED <<send, sendClosed, closes, connClosed, written, writerPc>>
    /\ UNCHANGED histVars
    /\ UNCHANGED ingVars

\* a handler that starts a WritePump again when the previous one has ended
SpawnWriterRestarts(c) ==
    /\ panicked = "none"
    /\ \/ connPc[c] = "spawn"
       \/ connPc[c] = "read" /\ writerPc[c] = "done"
    /\ writerPc' = [writerPc EXCEPT ![c] = "run"]
    /\ connPc' = [connPc EXCEPT ![c] = "read"]
    /\ UNCHANGED hubVars
    /\ UNCHANGED <<send, sendClosed, closes, connClosed, written>>
    /\ UNCHANGED histVars
    /\ UNCHANGED ingVars

\* go client.WritePump(), then the handler enters readLoop
SpawnWriter(c) ==
    /\ panicked = "none"
    /\ connPc[c] = "spawn"
    /\ writerPc' = [writerPc EXCEPT ![c] = "run"]
    /\ connPc' = [connPc EXCEPT ![c] = "read"]
    /\ UNCHANGED hubVars
    /\ UNCHANGED <<send, sendClosed, closes, connClosed, written>>
    /\ UNCHANGED histVars
    /\ UNCHANGED ingVars

\* readLoop: c.ReadMessage() fails (peer gone or connection closed) and the
\* deferred cleanup blocks in `s.Hub.Unregister() <- client`.
ReadLoopEnd(c) ==
    /\ panicked = "none"
    /\ connPc[c] = "read"
    /\ connPc' = [connPc EXCEPT ![c] = "unregister"]
    /\ UNCHANGED hubVars
    /\ UNCHANGED <<send, sendClosed, closes, connClosed, written, writerPc>>
    /\ UNCHANGED histVars
    /\ UNCHANGED ingVars

\* a handler that keeps the Client for the next connection and registers it
\* again after its cleanup
HandlerCloseReuse(c) ==
    /\ panicked = "none"
    /\ connPc[c] = "close"
    /\ connClosed' = [connClosed EXCEPT ![c] = TRUE]
    /\ connPc' = [connPc EXCEPT ![c] = "register"]
    /\ UNCHANGED hubVars
    /\ UNCHANGED <<send, sendClosed, closes, written, writerPc>>
    /\ UNCHANGED histVars
    /\ UNCHANGED ingVars

\* the deferred client.Close() after the unregister send was accepted
HandlerClose(c) ==
    /\ panicked = "none"
    /\ connPc[c] = "close"
    /\ connClosed' = [connClosed EXCEPT ![c] = TRUE]
    /\ connPc' = [connPc EXCEPT ![c] = "done"]
    /\ UNCHANGED hubVars
    /\ UNCHANGED <<send, sendClosed, closes, written, writerPc>>
    /\ UNCHANGED histVars
    /\ UNCHANGED ingVars

(***************************************************************************)
(* Client.WritePump                                                        *)
(***************************************************************************)
\* Outcomes of c.Conn.WriteMessage: it fails on a locally closed connection
\* and may fail at any time on a live one (the peer is gone).
WriteOutcomes(c) == IF connClosed[c] THEN {FALSE} ELSE {TRUE, FALSE}

\* a receive that hands out the newest buffered value first
recvIndexNewest(q) == Len(q)

\* The message the receive `<-c.Send` yields: a buffered channel hands out its
\* buffered values in FIFO order, also after it was closed.
recvIndex(q) == 1

\* a WritePump that sends the close message twice
WritePumpClosesTwice(c) ==
    /\ panicked = "none"
    /\ writerPc[c] = "run"
    /\ \/ /\ send[c] # <<>>
          /\ LET k == recvIndex(send[c]) IN
             /\ send' = [send EXCEPT ![c] =
                           SubSeq(@, 1, k - 1) \o SubSeq(@, k + 1, Len(@))]
             /\ \E ok \in WriteOutcomes(c) :
                  IF ok
                  THEN /\ written' = [written EXCEPT ![c] =
                                        Append(@, TextFrame(send[c][k]))]
                       /\ UNCHANGED <<writerPc, connClosed>>
                  ELSE /\ writerPc' = [writerPc EXCEPT ![c] = "done"]
                       /\ connClosed' = [connClosed EXCEPT ![c] = TRUE]
                       /\ UNCHANGED written
       \/ /\ send[c] = <<>>
          /\ sendClosed[c]
          /\ \E ok \in WriteOutcomes(c) :
               written' = [written EXCEPT ![c] =
                   IF ok THEN Append(Append(@, CloseFrame), CloseFrame) ELSE @]
          /\ writerPc' = [writerPc EXCEPT ![c] = "done"]
          /\ connClosed' = [connClosed EXCEPT ![c] = TRUE]
          /\ UNCHANGED send
    /\ UNCHANGED hubVars
    /\ UNCHANGED <<sendClosed, closes, connPc>>
    /\ UNCHANGED histVars
    /\ UNCHANGED ingVars

\* a WritePump that logs a failed write of a message and goes on
WritePumpKeepsGoing(c) ==
    /\ panicked = "none"
    /\ writerPc[c] = "run"
    /\ \/ /\ send[c] # <<>>
          /\ LET k == recvIndex(send[c]) IN
             /\ send' = [send EXCEPT ![c] =
                           SubSeq(@, 1, k - 1) \o SubSeq(@, k + 1, Len(@))]
             /\ \E ok \in WriteOutcomes(c) :
                  /\ written' = [written EXCEPT ![c] =
                         IF ok THEN Append(@, TextFrame(send[c][k])) ELSE @]
                  /\ UNCHANGED <<writerPc, connClosed>>
       \/ /\ send[c] = <<>>
          /\ sendClosed[c]
          /\ \E ok \in WriteOutcomes(c) :
               written' = [written EXCEPT ![c] =
                             IF ok THEN Append(@, CloseFrame) ELSE @]
          /\ writerPc' = [writerPc EXCEPT ![c] = "done"]
          /\ connClosed' = [connClosed EXCEPT ![c] = TRUE]
          /\ UNCHANGED send
    /\ UNCHANGED hubVars
    /\ UNCHANGED <<sendClosed, closes, connPc>>
    /\ UNCHANGED histVars
    /\ UNCHANGED ingVars

\* One iteration of the for loop of WritePump.
WritePump(c) ==
    /\ panicked = "none"
    /\ writerPc[c] = "run"
    /\ \/ \* message, ok := <-c.Send with ok = true
          /\ send[c] # <<>>
          /\ LET k == recvIndex(send[c]) IN
             /\ send' = [send EXCEPT ![c] =
                           SubSeq(@, 1, k - 1) \o SubSeq(@, k + 1, Len(@))]
             /\ \E ok \in WriteOutcomes(c) :
                  IF ok
                  THEN /\ written' = [written EXCEPT ![c] =
                                        Append(@, TextFrame(send[c][k]))]
                       /\ UNCHANGED <<writerPc, connClosed>>
                  ELSE \* write error: return, the defer closes the connection
                       /\ writerPc' = [writerPc EXCEPT ![c] = "done"]
                       /\ connClosed' = [connClosed EXCEPT ![c] = TRUE]
                       /\ UNCHANGED written
       \/ \* ok = false: the channel is closed and drained; send the close
          \* message (its error is only logged), return, defer closes the conn
          /\ send[c] = <<>>
          /\ sendClosed[c]
          /\ \E ok \in WriteOutcomes(c) :
               written' = [written EXCEPT ![c] =
                             IF ok THEN Append(@, CloseFrame) ELSE @]
          /\ writerPc' = [writerPc EXCEPT ![c] = "done"]
          /\ connClosed' = [connClosed EXCEPT ![c] = TRUE]
          /\ UNCHANGED send
    /\ UNCHANGED hubVars
    /\ UNCHANGED <<sendClosed, closes, connPc>>
    /\ UNCHANGED histVars
    /\ UNCHANGED ingVars

(***************************************************************************)
(* Ingestor                                                                *)
(***************************************************************************)
\* NewIngestor's watch-list (six symbols in the source, two in the model)
DefaultSymbols == <<"BTCUSDT", "ETHUSDT">>

\* the symbol names callers pass to GetCurrentPrice: those of the default
\* watch-list and one that is never configured
SymbolNames == {"BTCUSDT", "ETHUSDT", "SOLUSDT"}

\* the symbol names callers pass to AddSymbol and RemoveSymbol
WatchNames == {DefaultSymbols[k] : k \in 1 .. Len(DefaultSymbols)}

\* the LastPrice strings the upstream events of a run carry, per symbol
PriceStrings(name) ==
    IF name = "BTCUSDT" THEN {"100", "101", "NaN"} ELSE {"50"}

\* float64 values: a number, or NaN
Float(v) == [nan |-> FALSE, val |-> v]
NaN == [nan |-> TRUE, val |-> 0]

\* strconv.ParseFloat(s, 64) with the error discarded: the value of a decimal
\* string, NaN for "NaN", and 0 for what does not parse.
ParseFloat(s) ==
    CASE s = "100" -> Float(100)
      [] s = "101" -> Float(101)
      [] s = "50" -> Float(50)
      [] s = "NaN" -> NaN
      [] OTHER -> Float(0)

\* Ingestor.GetSymbols
GetSymbols == [k \in 1 .. Len(symbols) |-> symbols[k].Name]

\* the upstream events of a subscription to the symbols `subs`
Events(subs) ==
    UNION {{[Symbol |-> subs[k], LastPrice |-> p] : p \in PriceStrings(subs[k])} :
              k \in 1 .. Len(subs)}

\* Ingestor.findSymbol: the first symbol of that name (0 stands for nil)
findSymbol(name) ==
    IF \E k \in 1 .. Len(symbols) : symbols[k].Name = name
    THEN CHOOSE k \in 1 .. Len(symbols) :
            /\ symbols[k].Name = name
            /\ \A j \in 1 .. k - 1 : symbols[j].Name # name
    ELSE 0

\* Ingestor.updateSymbolData; t is time.Now()
updateSymbolData(event, t) ==
    LET k == findSymbol(event.Symbol) IN
    symbols' = IF k = 0 THEN symbols
               ELSE [symbols EXCEPT ![k].LastPrice = event.LastPrice,
                                    ![k].LastUpdateAt = t]

\* Ingestor.convertEventToPriceUpdate; t is time.Now()
convertEventToPriceUpdate(event, t) ==
    [Symbol |-> event.Symbol,
     Price |-> ParseFloat(event.LastPrice),
     Timestamp |-> t]

\* updateOrAppendPrice that appends without looking for the symbol
updateOrAppendPriceAppendOnly(data, pu) ==
    Append(data, pu)

\* updateOrAppendPrice that moves an updated symbol to the end
updateOrAppendPriceMoveToEnd(data, pu) ==
    Append(SelectSeq(data, LAMBDA u : u.Symbol # pu.Symbol), pu)

\* Ingestor.updateOrAppendPrice, on the Data of the MultiUpdate
updateOrAppendPrice(data, pu) ==
    IF \E idx \in 1 .. Len(data) : data[idx].Symbol = pu.Symbol
    THEN LET idx == CHOOSE i \in 1 .. Len(data) :
                        /\ data[i].Symbol = pu.Symbol
                        /\ \A j \in 1 .. i - 1 : data[j].Symbol # pu.Symbol
         IN [data EXCEPT ![idx] = pu]
    ELSE Append(data, pu)

\* json.Marshal of a MultiUpdate: the wire form, or an error when a float is
\* not a number (UnsupportedValueError)
Marshal(data) ==
    IF \E k \in 1 .. Len(data) : data[k].Price.nan
    THEN [err |-> TRUE, json |-> <<>>]
    ELSE [err |-> FALSE,
          json |-> <<[type |-> "multi_update",
                      data |-> [k \in 1 .. Len(data) |->
                                  [symbol |-> data[k].Symbol,
                                   price |-> data[k].Price.val,
                                   timestamp |-> data[k].Timestamp]]]>>]

IngestorInit ==
    /\ symbols = [k \in 1 .. Len(DefaultSymbols) |->
                    [Name |-> DefaultSymbols[k], LastPrice |-> "",
                     LastUpdateAt |-> 0]]
    /\ ctxDone = FALSE
    /\ doneChannels = <<>>
    /\ doneCloses = <<>>
    /\ startPc = "idle"
    /\ subscribed = <<>>
    /\ ticker = "none"
    /\ tickC = FALSE
    /\ flushPc = "none"
    /\ jsonData = <<>>
    /\ heap = <<>>
    /\ pendingUpdate = 0
    /\ hPc = "idle"
    /\ priceUpdate = <<>>
    /\ hRef = 0
    /\ now = 0
    /\ lastEvent = [s \in SymbolNames |-> 0]
    /\ serialised = {}
    /\ stops = 0
    /\ removed = FALSE

\* main blocked in waitForShutdown on the quit channel
MainInit == mainPc = "wait"

\* ---- StartMultiSymbol ----
\* GetSymbols, the empty check, NewTicker, `var pendingUpdate`, and
\* connectToBinance, which fails or appends the new doneC to doneChannels.
StartConnect ==
    /\ panicked = "none"
    /\ startPc = "idle"
    /\ IF Len(GetSymbols) = 0
       THEN /\ startPc' = "returned"
            /\ UNCHANGED <<ticker, doneChannels, doneCloses, subscribed>>
       ELSE \E ok \in BOOLEAN :
              IF ok
              THEN /\ doneChannels' = Append(doneChannels, "open")
                   /\ doneCloses' = Append(doneCloses, 0)
                   /\ subscribed' = GetSymbols
                   /\ ticker' = "running"
                   /\ startPc' = "connected"
              ELSE \* the error return runs the deferred throttleTicker.Stop()
                   /\ ticker' = "stopped"
                   /\ startPc' = "returned"
                   /\ UNCHANGED <<doneChannels, doneCloses, subscribed>>
    /\ UNCHANGED <<symbols, ctxDone, tickC, flushPc, jsonData, heap,
                   pendingUpdate, hPc, priceUpdate, hRef, now, lastEvent,
                   serialised, stops>>
    /\ UNCHANGED <<broadcast, dispatched, panicked>>
    /\ UNCHANGED hubOnlyVars

\* startThrottledBroadcast: the flush goroutine is launched
StartFlush ==
    /\ panicked = "none"
    /\ startPc = "connected"
    /\ startPc' = "waiting"
    /\ flushPc' = "select"
    /\ UNCHANGED <<symbols, ctxDone, doneChannels, doneCloses, subscribed,
                   ticker, tickC, jsonData, heap, pendingUpdate, hPc,
                   priceUpdate, hRef, now, lastEvent, serialised, stops>>
    /\ UNCHANGED <<broadcast, dispatched, panicked>>
    /\ UNCHANGED hubOnlyVars

\* a waitForShutdown that returns at once
StartReturnUnguarded ==
    /\ panicked = "none"
    /\ startPc = "waiting"
    /\ startPc' = "returned"
    /\ ticker' = "stopped"
    /\ UNCHANGED <<symbols, ctxDone, doneChannels, doneCloses, subscribed,
                   tickC, flushPc, jsonData, heap, pendingUpdate, hPc,
                   priceUpdate, hRef, now, lastEvent, serialised, stops>>
    /\ UNCHANGED <<broadcast, dispatched, panicked>>
    /\ UNCHANGED hubOnlyVars

\* waitForShutdown returns on <-doneC or <-ctx.Done(); StartMultiSymbol then
\* returns and its deferred throttleTicker.Stop() runs.
StartReturn ==
    /\ panicked = "none"
    /\ startPc = "waiting"
    /\ \/ doneChannels[Len(doneChannels)] = "closed"
       \/ ctxDone
    /\ startPc' = "returned"
    /\ ticker' = "stopped"
    /\ UNCHANGED <<symbols, ctxDone, doneChannels, doneCloses, subscribed,
                   tickC, flushPc, jsonData, heap, pendingUpdate, hPc,
                   priceUpdate, hRef, now, lastEvent, serialised, stops>>
    /\ UNCHANGED <<broadcast, dispatched, panicked>>
    /\ UNCHANGED hubOnlyVars

\* The upstream connection ends by itself: the streaming client signals done
\* by closing the doneC it returned.
UpstreamEnd ==
    /\ panicked = "none"
    /\ \E k \in 1 .. Len(doneChannels) :
          /\ doneChannels[k] = "open"
          /\ doneChannels' = [doneChannels EXCEPT ![k] = "closed"]
          /\ doneCloses' = [doneCloses EXCEPT ![k] = @ + 1]
    /\ UNCHANGED <<symbols, ctxDone, startPc, subscribed, ticker, tickC,
                   flushPc, jsonData, heap, pendingUpdate, hPc, priceUpdate,
                   hRef, now, lastEvent, serialised, stops>>
    /\ UNCHANGED <<broadcast, dispatched, panicked>>
    /\ UNCHANGED hubOnlyVars

\* the first handle of doneChannels that is already closed (Len + 1 if none)
FirstClosed(chs) ==
    IF \E k \in 1 .. Len(chs) : chs[k] = "closed"
    THEN CHOOSE k \in 1 .. Len(chs) :
            /\ chs[k] = "closed"
            /\ \A j \in 1 .. k - 1 : chs[j] # "closed"
    ELSE Len(chs) + 1

\* Ingestor.Stop: i.cancel(), then close(doneC) for every handle in order;
\* close() of an already closed channel is a runtime panic.
IngestorStop ==
    /\ stops' = stops + 1
    /\ ctxDone' = TRUE
    /\ LET f == FirstClosed(doneChannels) IN
       /\ doneChannels' = [k \in 1 .. Len(doneChannels) |->
                             IF k < f THEN "closed" ELSE doneChannels[k]]
       /\ doneCloses' = [k \in 1 .. Len(doneCloses) |->
                           IF k <= f THEN doneCloses[k] + 1 ELSE doneCloses[k]]
       /\ panicked' = IF f <= Len(doneChannels)
                      THEN "close of closed channel"
                      ELSE panicked
    /\ UNCHANGED <<symbols, startPc, subscribed, ticker, tickC, flushPc,
                   jsonData, heap, pendingUpdate, hPc, priceUpdate, hRef,
                   now, lastEvent, serialised>>
    /\ UNCHANGED <<broadcast, dispatched>>
    /\ UNCHANGED hubSideVars

\* a caller (a test, a handler) calls Stop()
Stop ==
    /\ panicked = "none"
    /\ stops < MaxStops
    /\ IngestorStop
    /\ UNCHANGED <<mainPc, removed>>

\* ---- main's waitForShutdown ----
\* sig := <-quit
MainSignal ==
    /\ panicked = "none"
    /\ mainPc = "wait"
    /\ mainPc' = "stop"
    /\ UNCHANGED <<ingVarsButFlushPc, flushPc>>
    /\ UNCHANGED <<broadcast, dispatched, panicked>>
    /\ UNCHANGED <<hubSideVars, removed>>

\* a waitForShutdown that goes on to the server without stopping the ingestor
MainStopSkipped ==
    /\ panicked = "none"
    /\ mainPc = "stop"
    /\ mainPc' = "shutdown"
    /\ UNCHANGED <<ingVarsButFlushPc, flushPc>>
    /\ UNCHANGED <<broadcast, dispatched, panicked>>
    /\ UNCHANGED <<hubSideVars, removed>>

\* ingestor.Stop(); a panic in it ends the process before the next statement
MainStop ==
    /\ panicked = "none"
    /\ mainPc = "stop"
    /\ IngestorStop
    /\ mainPc' = IF panicked' = "none" THEN "shutdown" ELSE mainPc
    /\ UNCHANGED removed

\* srv.ShutdownWithContext(ctx) returns
MainShutdown ==
    /\ panicked = "none"
    /\ mainPc = "shutdown"
    /\ mainPc' = "exit"
    /\ UNCHANGED <<ingVarsButFlushPc, flushPc>>
    /\ UNCHANGED <<broadcast, dispatched, panicked>>
    /\ UNCHANGED <<hubSideVars, removed>>

\* ---- the watch-list ----
\* an AddSymbol that also subscribes the open connection to the symbol
AddSymbolResubscribes(name) ==
    /\ panicked = "none"
    /\ Len(symbols) < MaxSymbols
    /\ symbols' = Append(symbols,
                         [Name |-> name, LastPrice |-> "", LastUpdateAt |-> 0])
    /\ subscribed' = IF subscribed = <<>> THEN subscribed
                     ELSE Append(subscribed, name)
    /\ UNCHANGED <<ctxDone, doneChannels, doneCloses, startPc, ticker,
                   tickC, flushPc, jsonData, heap, pendingUpdate, hPc,
                   priceUpdate, hRef, now, lastEvent, serialised, stops>>
    /\ UNCHANGED <<broadcast, dispatched, panicked>>
    /\ UNCHANGED hubOnlyVars

\* Ingestor.AddSymbol: append a fresh Symbol, whatever the watch-list holds
AddSymbol(name) ==
    /\ panicked = "none"
    /\ Len(symbols) < MaxSymbols
    /\ symbols' = Append(symbols,
                         [Name |-> name, LastPrice |-> "", LastUpdateAt |-> 0])
    /\ UNCHANGED <<ctxDone, doneChannels, doneCloses, startPc, subscribed,
                   ticker, tickC, flushPc, jsonData, heap, pendingUpdate, hPc,
                   priceUpdate, hRef, now, lastEvent, serialised, stops>>
    /\ UNCHANGED <<broadcast, dispatched, panicked>>
    /\ UNCHANGED hubOnlyVars

\* a RemoveSymbol that truncates without the swap
RemoveSymbolTruncates(name) ==
    /\ panicked = "none"
    /\ LET idx == findSymbol(name)
           n == Len(symbols)
       IN /\ symbols' = IF idx = 0 THEN symbols ELSE SubSeq(symbols, 1, n - 1)
          /\ removed' = (idx # 0)
    /\ UNCHANGED <<ctxDone, doneChannels, doneCloses, startPc, subscribed,
                   ticker, tickC, flushPc, jsonData, heap, pendingUpdate, hPc,
                   priceUpdate, hRef, now, lastEvent, serialised, stops>>
    /\ UNCHANGED <<broadcast, dispatched, panicked>>
    /\ UNCHANGED <<hubSideVars, mainPc>>

\* Ingestor.RemoveSymbol: the first symbol of that name is overwritten by the
\* last one and the slice is truncated, and the result is true; nothing
\* changes and the result is false if there is none.
RemoveSymbol(name) ==
    /\ panicked = "none"
    /\ LET idx == findSymbol(name)
           n == Len(symbols)
       IN /\ symbols' = IF idx = 0 THEN symbols
                        ELSE SubSeq([symbols EXCEPT ![idx] = symbols[n]],
                                    1, n - 1)
          /\ removed' = (idx # 0)
    /\ UNCHANGED <<ctxDone, doneChannels, doneCloses, startPc, subscribed,
                   ticker, tickC, flushPc, jsonData, heap, pendingUpdate, hPc,
                   priceUpdate, hRef, now, lastEvent, serialised, stops>>
    /\ UNCHANGED <<broadcast, dispatched, panicked>>
    /\ UNCHANGED <<hubSideVars, mainPc>>

\* a GetCurrentPrice without the test for an empty LastPrice
GetCurrentPriceNoEmptyTest(name) ==
    LET k == findSymbol(name) IN
    IF k = 0
    THEN [price |-> "", err |-> "symbol not found"]
    ELSE [price |-> symbols[k].LastPrice, err |-> "nil"]

\* Ingestor.GetCurrentPrice: (price, error)
GetCurrentPrice(name) ==
    LET k == findSymbol(name) IN
    IF k = 0
    THEN [price |-> "", err |-> "symbol not found"]
    ELSE IF symbols[k].LastPrice = ""
         THEN [price |-> "", err |-> "no price data yet"]
         ELSE [price |-> symbols[k].LastPrice, err |-> "nil"]

\* ---- the throttle ticker ----
Tick ==
    /\ panicked = "none"
    /\ ticker = "running"
    /\ ~tickC
    /\ tickC' = TRUE
    /\ UNCHANGED <<symbols, ctxDone, doneChannels, doneCloses, startPc,
                   subscribed, ticker, flushPc, jsonData, heap, pendingUpdate,
                   hPc, priceUpdate, hRef, now, lastEvent, serialised, stops>>
    /\ UNCHANGED <<broadcast, dispatched, panicked>>
    /\ UNCHANGED hubOnlyVars

\* ---- the event handler (createWebSocketHandler) ----
\* An upstream event arrives on an open connection: updateSymbolData and
\* convertEventToPriceUpdate.
EventArrives(event) ==
    /\ panicked = "none"
    /\ hPc = "idle"
    /\ now < MaxEvents
    /\ \E k \in 1 .. Len(doneChannels) : doneChannels[k] = "open"
    /\ now' = now + 1
    /\ updateSymbolData(event, now + 1)
    /\ priceUpdate' = <<convertEventToPriceUpdate(event, now + 1)>>
    /\ hPc' = "queue"
    /\ UNCHANGED <<ctxDone, doneChannels, doneCloses, startPc, subscribed,
                   ticker, tickC, flushPc, jsonData, heap, pendingUpdate,
                   hRef, lastEvent, serialised, stops>>
    /\ UNCHANGED <<broadcast, dispatched, panicked>>
    /\ UNCHANGED hubOnlyVars

\* queuePriceUpdate: `*pendingUpdate == nil` allocates a MultiUpdate holding
\* the update and returns; otherwise updateOrAppendPrice is called with the
\* MultiUpdate that pendingUpdate points to now.
QueuePriceUpdate ==
    /\ panicked = "none"
    /\ hPc = "queue"
    /\ IF pendingUpdate = 0
       THEN /\ heap' = Append(heap, <<priceUpdate[1]>>)
            /\ pendingUpdate' = Len(heap) + 1
            /\ lastEvent' = [lastEvent EXCEPT ![priceUpdate[1].Symbol] =
                               priceUpdate[1].Timestamp]
            /\ priceUpdate' = <<>>
            /\ hPc' = "idle"
            /\ UNCHANGED hRef
       ELSE /\ hRef' = pendingUpdate
            /\ hPc' = "update"
            /\ UNCHANGED <<heap, pendingUpdate, lastEvent, priceUpdate>>
    /\ UNCHANGED <<symbols, ctxDone, doneChannels, doneCloses, startPc,
                   subscribed, ticker, tickC, flushPc, jsonData, now,
                   serialised, stops>>
    /\ UNCHANGED <<broadcast, dispatched, panicked>>
    /\ UNCHANGED hubOnlyVars

\* updateOrAppendPrice on the MultiUpdate the handler holds
UpdateOrAppend ==
    /\ panicked = "none"
    /\ hPc = "update"
    /\ heap' = [heap EXCEPT ![hRef] = updateOrAppendPrice(@, priceUpdate[1])]
    /\ lastEvent' = [lastEvent EXCEPT ![priceUpdate[1].Symbol] =
                       priceUpdate[1].Timestamp]
    /\ priceUpdate' = <<>>
    /\ hRef' = 0
    /\ hPc' = "idle"
    /\ UNCHANGED <<symbols, ctxDone, doneChannels, doneCloses, startPc,
                   subscribed, ticker, tickC, flushPc, jsonData,
                   pendingUpdate, now, serialised, stops>>
    /\ UNCHANGED <<broadcast, dispatched, panicked>>
    /\ UNCHANGED hubOnlyVars

\* ---- the flush goroutine (startThrottledBroadcast) ----
\* a select without the ctx.Done() case
FlushExitNever ==
    /\ FALSE
    /\ UNCHANGED vars

\* case <-i.ctx.Done(): return
FlushExit ==
    /\ panicked = "none"
    /\ flushPc = "select"
    /\ ctxDone
    /\ flushPc' = "exit"
    /\ UNCHANGED <<symbols, ctxDone, doneChannels, doneCloses, startPc,
                   subscribed, ticker, tickC, jsonData, heap, pendingUpdate,
                   hPc, priceUpdate, hRef, now, lastEvent, serialised, stops>>
    /\ UNCHANGED <<broadcast, dispatched, panicked>>
    /\ UNCHANGED hubOnlyVars

\* case <-throttleTicker.C: the tick is taken and broadcastPendingUpdates
\* is called.
FlushTick ==
    /\ panicked = "none"
    /\ flushPc = "select"
    /\ tickC
    /\ tickC' = FALSE
    /\ flushPc' = "check"
    /\ UNCHANGED <<symbols, ctxDone, doneChannels, doneCloses, startPc,
                   subscribed, ticker, jsonData, heap, pendingUpdate, hPc,
                   priceUpdate, hRef, now, lastEvent, serialised, stops>>
    /\ UNCHANGED <<broadcast, dispatched, panicked>>
    /\ UNCHANGED hubOnlyVars

\* a broadcastPendingUpdates without the early return: a nil pendingUpdate is
\* flushed as a batch without entries
FlushCheckSendsEmpty ==
    /\ panicked = "none"
    /\ flushPc = "check"
    /\ IF pendingUpdate = 0 \/ Len(heap[pendingUpdate]) = 0
       THEN /\ jsonData' = <<[type |-> "multi_update", data |-> <<>>]>>
            /\ flushPc' = "send"
       ELSE /\ flushPc' = "marshal"
            /\ UNCHANGED jsonData
    /\ UNCHANGED <<symbols, ctxDone, doneChannels, doneCloses, startPc,
                   subscribed, ticker, tickC, heap, pendingUpdate, hPc,
                   priceUpdate, hRef, now, lastEvent, serialised, stops>>
    /\ UNCHANGED <<broadcast, dispatched, panicked>>
    /\ UNCHANGED hubOnlyVars

\* broadcastPendingUpdates: `if *pendingUpdate == nil ||
\* len((*pendingUpdate).Data) == 0 { return }`
FlushCheck ==
    /\ panicked = "none"
    /\ flushPc = "check"
    /\ flushPc' = IF pendingUpdate = 0 \/ Len(heap[pendingUpdate]) = 0
                  THEN "select"
                  ELSE "marshal"
    /\ UNCHANGED <<symbols, ctxDone, doneChannels, doneCloses, startPc,
                   subscribed, ticker, tickC, jsonData, heap, pendingUpdate,
                   hPc, priceUpdate, hRef, now, lastEvent, serialised, stops>>
    /\ UNCHANGED <<broadcast, dispatched, panicked>>
    /\ UNCHANGED hubOnlyVars

\* jsonData, err := json.Marshal(*pendingUpdate); on an error the function
\* returns (before the reset of pendingUpdate).
FlushMarshal ==
    /\ panicked = "none"
    /\ flushPc = "marshal"
    /\ LET r == Marshal(heap[pendingUpdate]) IN
       IF r.err
       THEN /\ flushPc' = "select"
            /\ UNCHANGED <<jsonData, serialised>>
       ELSE /\ jsonData' = r.json
            /\ serialised' = serialised \cup
                 {heap[pendingUpdate][k].Timestamp :
                     k \in 1 .. Len(heap[pendingUpdate])}
            /\ flushPc' = "send"
    /\ UNCHANGED <<symbols, ctxDone, doneChannels, doneCloses, startPc,
                   subscribed, ticker, tickC, heap, pendingUpdate, hPc,
                   priceUpdate, hRef, now, lastEvent, stops>>
    /\ UNCHANGED <<broadcast, dispatched, panicked>>
    /\ UNCHANGED hubOnlyVars

\* a flush that keeps the batch when the Hub did not take it
FlushSendKeepsDropped ==
    /\ panicked = "none"
    /\ flushPc = "send"
    /\ sendToHub(jsonData[1])
    /\ flushPc' = IF Len(broadcast) < BroadcastBufferSize
                  THEN "reset" ELSE "select"
    /\ UNCHANGED ingVarsButFlushPc
    /\ UNCHANGED <<dispatched, panicked>>
    /\ UNCHANGED hubOnlyVars

\* i.sendToHub(jsonData, ...)
FlushSend ==
    /\ panicked = "none"
    /\ flushPc = "send"
    /\ sendToHub(jsonData[1])
    /\ flushPc' = "reset"
    /\ UNCHANGED ingVarsButFlushPc
    /\ UNCHANGED <<dispatched, panicked>>
    /\ UNCHANGED hubOnlyVars

\* a flush that keeps the batch it has handed over
FlushResetKeepsBatch ==
    /\ panicked = "none"
    /\ flushPc = "reset"
    /\ jsonData' = <<>>
    /\ flushPc' = "select"
    /\ UNCHANGED <<symbols, ctxDone, doneChannels, doneCloses, startPc,
                   subscribed, ticker, tickC, heap, pendingUpdate, hPc,
                   priceUpdate, hRef, now, lastEvent, serialised, stops>>
    /\ UNCHANGED <<broadcast, dispatched, panicked>>
    /\ UNCHANGED hubOnlyVars

\* *pendingUpdate = nil
FlushReset ==
    /\ panicked = "none"
    /\ flushPc = "reset"
    /\ pendingUpdate' = 0
    /\ jsonData' = <<>>
    /\ flushPc' = "select"
    /\ UNCHANGED <<symbols, ctxDone, doneChannels, doneCloses, startPc,
                   subscribed, ticker, tickC, heap, hPc, priceUpdate, hRef,
                   now, lastEvent, serialised, stops>>
    /\ UNCHANGED <<broadcast, dispatched, panicked>>
    /\ UNCHANGED hubOnlyVars

(***************************************************************************)
(* Spec: the Hub with its connection handlers, writers and a producer      *)
(***************************************************************************)
Init ==
    /\ HubInit
    /\ ClientInit
    /\ HistInit
    /\ IngestorInit
    /\ MainInit

Next ==
    \/ Produce
    \/ HubBroadcast
    \/ \E c \in Sinks : HubRegister(c)
    \/ \E c \in Sinks : HubUnregister(c)
    \/ \E c \in Sinks : HubEvict(c)
    \/ \E c \in Sinks : HubFanout(c)
    \/ \E c \in Sinks : Connect(c)
    \/ \E c \in Sinks : SpawnWriter(c)
    \/ \E c \in Sinks : ReadLoopEnd(c)
    \/ \E c \in Sinks : HandlerClose(c)
    \/ \E c \in Sinks : WritePump(c)

Spec == Init /\ [][Next]_vars

(***************************************************************************)
(* SpecIngestor: the Ingestor (Start, the event handler, the flush         *)
(* goroutine, Stop) against the Hub's broadcast intake                     *)
(***************************************************************************)
NextIngestor ==
    \/ StartConnect
    \/ StartFlush
    \/ StartReturn
    \/ Stop
    \/ UpstreamEnd
    \/ Tick
    \/ \E event \in Events(subscribed) : EventArrives(event)
    \/ QueuePriceUpdate
    \/ UpdateOrAppend
    \/ FlushExit
    \/ FlushTick
    \/ FlushCheck
    \/ FlushMarshal
    \/ FlushSend
    \/ FlushReset
    \/ HubBroadcast

SpecIngestor == Init /\ [][NextIngestor]_vars

(***************************************************************************)
(* SpecHubApi: the Hub driven through its channels by arbitrary callers     *)
(***************************************************************************)
NextHubApi ==
    \/ Produce
    \/ HubBroadcast
    \/ \E c \in Sinks : RegisterSend(c)
    \/ \E c \in Sinks : UnregisterSend(c)
    \/ \E c \in Sinks : HubEvict(c)
    \/ \E c \in Sinks : HubFanout(c)

SpecHubApi == Init /\ [][NextHubApi]_vars

(***************************************************************************)
(* SpecBurst: Spec with a producer that outruns a sink's queue twice       *)
(***************************************************************************)
NextBurst ==
    \/ ProduceBurst
    \/ HubBroadcast
    \/ \E c \in Sinks : HubRegister(c)
    \/ \E c \in Sinks : HubUnregister(c)
    \/ \E c \in Sinks : HubEvict(c)
    \/ \E c \in Sinks : HubFanout(c)
    \/ \E c \in Sinks : Connect(c)
    \/ \E c \in Sinks : SpawnWriter(c)
    \/ \E c \in Sinks : ReadLoopEnd(c)
    \/ \E c \in Sinks : HandlerClose(c)
    \/ \E c \in Sinks : WritePump(c)

SpecBurst == Init /\ [][NextBurst]_vars

(***************************************************************************)
(* SpecWatchlist: the Ingestor with callers of AddSymbol / RemoveSymbol,    *)
(* within one throttle interval (the ticker does not fire)                  *)
(***************************************************************************)
NextWatchlist ==
    \/ \E name \in WatchNames : findSymbol(name) = 0 /\ AddSymbol(name)
    \/ \E name \in WatchNames : RemoveSymbol(name)
    \/ StartConnect
    \/ StartFlush
    \/ StartReturn
    \/ Stop
    \/ UpstreamEnd
    \/ \E event \in Events(subscribed) : EventArrives(event)
    \/ QueuePriceUpdate
    \/ UpdateOrAppend
    \/ FlushExit

SpecWatchlist == Init /\ [][NextWatchlist]_vars

(***************************************************************************)
(* SpecSymbols: the watch-list with callers that pass any name to          *)
(* AddSymbol / RemoveSymbol, and an event that fills a Symbol              *)
(***************************************************************************)
NextSymbols ==
    \/ \E name \in WatchNames : AddSymbol(name)
    \/ \E name \in SymbolNames : RemoveSymbol(name)
    \/ StartConnect
    \/ \E event \in Events(subscribed) : EventArrives(event)

SpecSymbols == Init /\ [][NextSymbols]_vars

(***************************************************************************)
(* SpecShutdown: the process of main.go: the Ingestor started, and          *)
(* waitForShutdown as the only caller of Stop                               *)
(***************************************************************************)
NextShutdown ==
    \/ MainSignal
    \/ MainStop
    \/ MainShutdown
    \/ StartConnect
    \/ StartFlush
    \/ StartReturn
    \/ UpstreamEnd
    \/ Tick
    \/ \E event \in Events(subscribed) : EventArrives(event)
    \/ QueuePriceUpdate
    \/ UpdateOrAppend
    \/ FlushExit
    \/ FlushTick
    \/ FlushCheck
    \/ FlushMarshal
    \/ FlushSend
    \/ FlushReset
    \/ HubBroadcast

SpecShutdown == Init /\ [][NextShutdown]_vars

\* The Hub loop keeps running: a fan-out pass proceeds, and Go's select picks
\* a ready unregister send infinitely often if it is ready infinitely often.
HubFairness ==
    /\ \A c \in Sinks : WF_vars(HubFanout(c))
    /\ \A c \in Sinks : SF_vars(HubEvict(c))

FairSpec == Spec /\ HubFairness

\* The Run loop also takes a handler's unregister send that stays offered.
FairTeardownSpec ==
    /\ Spec
    /\ \A c \in Sinks : WF_vars(HubFanout(c))
    /\ \A c \in Sinks : SF_vars(HubUnregister(c))

\* The select of Run takes each of its cases again and again if it is ready
\* again and again: the register channel, and the unregister channel with
\* the teardown and eviction requests that wait on it.
FairHubSpec ==
    /\ Spec
    /\ \A c \in Sinks : WF_vars(HubFanout(c))
    /\ SF_vars(\E c \in Sinks : HubRegister(c))
    /\ SF_vars(\E c \in Sinks : HubUnregister(c) \/ HubEvict(c))

\* a step in which WritePump returns on a failed c.Conn.WriteMessage
WriteFails(c) ==
    /\ writerPc[c] = "run" /\ writerPc'[c] = "done"
    /\ written'[c] = written[c]

\* a WritePump iteration whose write succeeds
WritePumpOk(c) == WritePump(c) /\ ~WriteFails(c)

\* Spec with connections on which a write fails only after a local Close()
NextDelivery ==
    \/ Produce
    \/ HubBroadcast
    \/ \E c \in Sinks : HubRegister(c)
    \/ \E c \in Sinks : HubUnregister(c)
    \/ \E c \in Sinks : HubEvict(c)
    \/ \E c \in Sinks : HubFanout(c)
    \/ \E c \in Sinks : Connect(c)
    \/ \E c \in Sinks : SpawnWriter(c)
    \/ \E c \in Sinks : ReadLoopEnd(c)
    \/ \E c \in Sinks : HandlerClose(c)
    \/ \E c \in Sinks : WritePumpOk(c)

FairDeliverySpec ==
    /\ Init /\ [][NextDelivery]_vars
    /\ HubFairness
    /\ \A c \in Sinks : WF_vars(WritePumpOk(c))

\* the events of one symbol of the subscription, with and without a number
CancelEvents(subs) ==
    {event \in Events(subs) :
        event.Symbol = subs[1] /\ event.LastPrice \in {"100", "NaN"}}

\* The Ingestor with Stop(), with the Hub's intake never drained.
NextCancel ==
    \/ StartConnect
    \/ StartFlush
    \/ StartReturn
    \/ Stop
    \/ UpstreamEnd
    \/ Tick
    \/ \E event \in CancelEvents(subscribed) : EventArrives(event)
    \/ QueuePriceUpdate
    \/ UpdateOrAppend
    \/ FlushExit
    \/ FlushTick
    \/ FlushCheck
    \/ FlushMarshal
    \/ FlushSend
    \/ FlushReset

\* The goroutines of the Ingestor keep being scheduled, and the select of the
\* flush loop picks the ctx.Done() case if it is ready again and again.
FairIngestorSpec ==
    /\ Init /\ [][NextCancel]_vars
    /\ WF_vars(StartFlush)
    /\ WF_vars(StartReturn)
    /\ SF_vars(FlushExit)
    /\ WF_vars(FlushCheck)
    /\ WF_vars(FlushMarshal)
    /\ WF_vars(FlushSend)
    /\ WF_vars(FlushReset)

\* A started WritePump goroutine keeps being scheduled.
WriterFairness == \A c \in Sinks : WF_vars(WritePump(c))

FairWriterSpec == Spec /\ WriterFairness

(***************************************************************************)
(* Properties                                                              *)
(***************************************************************************)
\* payloads of the text frames written to a connection, in order
RECURSIVE Payloads(_)
Payloads(fs) ==
    IF fs = <<>> THEN <<>>
    ELSE IF Head(fs).type = "text"
         THEN <<Head(fs).data[1]>> \o Payloads(Tail(fs))
         ELSE Payloads(Tail(fs))

\* position of payload m in the Hub's dispatch order (0 if never dispatched)
DispatchPos(m) ==
    IF \E i \in 1 .. Len(dispatched) : dispatched[i] = m
    THEN CHOOSE i \in 1 .. Len(dispatched) : dispatched[i] = m
    ELSE 0

\* C1: the fan-out pass never blocks: while broadcastMessage ranges over the
\* clients, the step for every client still to be visited can be taken at
\* once, whatever the fill state of its queue.
C1_FanoutNeverBlocks ==
    hubPc = "fanout" => \A c \in hubTodo : ENABLED HubFanout(c)

\* C1 witness: a pass has completed although every sink's queue was full.
C1_Witness ==
    /\ hubPc = "select"
    /\ clients = Sinks
    /\ \A c \in Sinks : Len(send[c]) = ClientSendBufferSize /\ evict[c] > 0

\* C2: a registered sink found full during a broadcast (an eviction request
\* for it is pending) is eventually removed from the Registry.
C2_FullSinkEventuallyRemoved ==
    \A c \in Sinks : (evict[c] > 0) ~> (c \notin clients)

\* C2 witness: a sink found full has been removed by its eviction request
\* while its connection handler is still in readLoop.
C2_Witness ==
    \E c \in Sinks :
        /\ c \notin clients
        /\ closes[c] = 1
        /\ connPc[c] = "read"
        /\ GetClientCount = Cardinality(Sinks) - 1

\* C5: per sink, payloads are written to the connection in the order the Hub
\* dispatched them.
C5_WriteOrderIsDispatchOrder ==
    \A c \in Sinks :
        LET ps == Payloads(written[c]) IN
        \A i, j \in 1 .. Len(ps) :
            i < j => /\ DispatchPos(ps[i]) > 0
                     /\ DispatchPos(ps[i]) < DispatchPos(ps[j])

\* C5 witness: a sink has had at least two payloads written.
C5_Witness ==
    \E c \in Sinks : Len(Payloads(written[c])) >= 2

C10_RegisteredIffDeliverable ==
    /\ \A c \in clients : ~sendClosed[c]
    /\ \A c \in hubTodo : c \in clients /\ ~sendClosed[c]
    /\ panicked # "send on closed channel"

\* C10 witness: one sink registered with an open queue holding a payload,
\* another with a closed queue and outside the Registry.
C10_Witness ==
    \E c, d \in Sinks :
        /\ c \in clients /\ ~sendClosed[c] /\ send[c] # <<>>
        /\ d \notin clients /\ sendClosed[d]

\* the Data of the MultiUpdate pendingUpdate points to (empty for nil)
PendingData == IF pendingUpdate = 0 THEN <<>> ELSE heap[pendingUpdate]

Timestamps(data) == {data[k].Timestamp : k \in 1 .. Len(data)}

\* no flush cycle and no handler invocation is under way
Quiescent == hPc = "idle" /\ flushPc \in {"none", "select", "exit"}

\* C3: an event's update is never lost to a concurrent flush: once the
\* handler and the flush cycle have both finished, the last update handled for
\* each symbol was serialised by a flush or is in the pending Batch.
C3_UpdateNeverLost ==
    Quiescent =>
        \A s \in DOMAIN lastEvent :
            \/ lastEvent[s] = 0
            \/ lastEvent[s] \in serialised
            \/ lastEvent[s] \in Timestamps(PendingData)

\* C4: coalescing is last-writer-wins: no MultiUpdate holds two entries of one
\* symbol, and once the handler has returned every entry of the pending Batch
\* is the update of the most recent event of its symbol, with its price.
C4_CoalescingLastWriterWins ==
    /\ \A o \in 1 .. Len(heap) :
          \A j, k \in 1 .. Len(heap[o]) :
              heap[o][j].Symbol = heap[o][k].Symbol => j = k
    /\ hPc = "idle" =>
          \A k \in 1 .. Len(PendingData) :
              LET u == PendingData[k] IN
              /\ u.Timestamp = lastEvent[u.Symbol]
              /\ u.Price = ParseFloat(symbols[findSymbol(u.Symbol)].LastPrice)

\* C4 witness: two events of one symbol since the last flush, the second with
\* price 101, left one entry carrying 101.
C4_Witness ==
    /\ hPc = "idle"
    /\ now = 2
    /\ pendingUpdate = 1
    /\ Len(heap[1]) = 1
    /\ heap[1][1].Timestamp = 2
    /\ heap[1][1].Price = Float(101)

\* C6: when json.Marshal fails in a flush, nothing is handed to the Hub, the
\* pending Batch is reset to empty, and the flush loop goes on.
C6_MarshalFailureResetsBatch ==
    [][(flushPc = "marshal" /\ flushPc' = "select")
         => (pendingUpdate' = 0 /\ broadcast' = broadcast)]_vars

\* C7: Stop never panics, however often and in whatever state it is called,
\* and once it was called the context stays cancelled.
C7_StopIdempotent ==
    /\ panicked = "none"
    /\ stops > 0 => ctxDone

\* C8: every upstream handle (doneC) is closed at most once.
C8_HandleClosedAtMostOnce ==
    \A k \in 1 .. Len(doneCloses) : doneCloses[k] <= 1

\* C11: unregister of a registered sink (by its handler or by an eviction
\* request) removes it from the Registry, lowers the count by exactly one and
\* closes its queue.
C11_UnregisterRemovesAndCloses ==
    [][\A c \in Sinks :
          (c \in clients /\ (HubUnregister(c) \/ HubEvict(c))) =>
              /\ clients' = clients \ {c}
              /\ Cardinality(clients') = GetClientCount - 1
              /\ ~sendClosed[c] /\ sendClosed'[c]
              /\ closes'[c] = closes[c] + 1
              /\ panicked' = "none"]_vars

\* C11 witness: a registered sink was unregistered by its handler's request
\* while the other sink stays registered.
C11_Witness ==
    \E c \in Sinks :
        /\ connPc[c] = "close"
        /\ regs[c] = 1 /\ ~unregNoop[c] /\ evict[c] = 0
        /\ c \notin clients /\ sendClosed[c] /\ closes[c] = 1
        /\ GetClientCount = Cardinality(Sinks) - 1

\* the step in which the writer of c finds its queue closed and drained
WriterSeesClosure(c) ==
    /\ writerPc[c] = "run" /\ writerPc'[c] = "done"
    /\ sendClosed[c] /\ send[c] = <<>>

\* C12 as stated: when the queue is closed the writer emits exactly one close
\* frame before it terminates.
C12_ExactlyOneCloseFrame ==
    [][\A c \in Sinks :
          WriterSeesClosure(c) => written'[c] = Append(written[c], CloseFrame)]_vars

\* C12 amended: when the queue is closed the running writer attempts the
\* close frame once, after the queued payloads: the connection gets it if
\* that write succeeds and nothing if it fails (it fails on a connection that
\* is already closed); a close frame is the last frame of a terminated
\* writer, so there is at most one; and the writer terminates.
C12_CloseFrameAtMostOnceAndLast ==
    /\ [](\A c \in Sinks : \A i \in 1 .. Len(written[c]) :
             written[c][i].type = "close" =>
                 i = Len(written[c]) /\ writerPc[c] = "done" /\ sendClosed[c])
    /\ [][\A c \in Sinks :
             WriterSeesClosure(c) =>
                 /\ written'[c] \in {written[c], Append(written[c], CloseFrame)}
                 /\ connClosed[c] => written'[c] = written[c]]_vars
    /\ \A c \in Sinks :
          (sendClosed[c] /\ writerPc[c] = "run") ~> (writerPc[c] = "done")

\* C12 witness: a writer wrote a payload, then the close frame, and ended.
C12_Witness ==
    \E c \in Sinks :
        /\ writerPc[c] = "done"
        /\ Len(written[c]) >= 2
        /\ written[c][Len(written[c])] = CloseFrame
        /\ written[c][Len(written[c]) - 1].type = "text"

\* C13: a failed write of a payload ends the writer at once: the step that
\* takes a payload without writing it terminates the writer, and a terminated
\* writer takes nothing more from the queue and writes no frame, payload or
\* close.
C13_WriteFailureEndsWriter ==
    [][\A c \in Sinks :
          /\ (writerPc[c] = "run" /\ Len(send'[c]) < Len(send[c])
                 /\ written'[c] = written[c])
               => writerPc'[c] = "done"
          /\ writerPc[c] = "done" =>
                 /\ writerPc'[c] = "done"
                 /\ written'[c] = written[c]
                 /\ Len(send'[c]) >= Len(send[c])]_vars

\* C13 witness: a writer ended after one payload, without a close frame,
\* while its queue, closed since, still holds a payload.
C13_Witness ==
    \E c \in Sinks :
        /\ writerPc[c] = "done"
        /\ Len(written[c]) = 1 /\ written[c][1].type = "text"
        /\ send[c] # <<>>
        /\ sendClosed[c]

\* C14: registering a sink that is already in the Registry leaves the
\* Registry and the count unchanged.
C14_RegisterIdempotent ==
    [][\A c \in Sinks :
          (c \in clients /\ RegisterSend(c)) =>
              /\ clients' = clients
              /\ Cardinality(clients') = GetClientCount]_vars

\* C14 witness: a sink was registered twice, never unregistered, and the
\* count is one.
C14_Witness ==
    \E c \in Sinks :
        /\ regs[c] = 2 /\ closes[c] = 0
        /\ clients = {c}
        /\ GetClientCount = 1

\* C15: the Registry is exactly the set of sinks whose register request was
\* accepted and that were not removed since, in every interleaving; so with
\* all N requests accepted and no removal the count is N.
C15_ConcurrentRegistersAllCounted ==
    /\ clients = {c \in Sinks : regs[c] > 0 /\ closes[c] = 0}
    /\ (\A c \in Sinks : regs[c] > 0 /\ closes[c] = 0)
          => GetClientCount = Cardinality(Sinks)

\* C15 witness: the handlers of all sinks had their register request
\* accepted, none was removed, and the count is the number of sinks.
C15_Witness ==
    /\ \A c \in Sinks : connPc[c] = "spawn" /\ regs[c] = 1 /\ closes[c] = 0
    /\ GetClientCount = Cardinality(Sinks)

\* C16: unregister of a sink that is not in the Registry changes nothing: not
\* the Registry, not the count, not the sink's queue (it is not closed, or
\* not closed again), and it does not panic.
C16_UnregisterAbsentIsNoop ==
    [][\A c \in Sinks :
          (c \notin clients /\ (UnregisterSend(c) \/ HubEvict(c))) =>
              /\ clients' = clients
              /\ Cardinality(clients') = GetClientCount
              /\ sendClosed' = sendClosed
              /\ closes' = closes
              /\ send' = send
              /\ panicked' = "none"]_vars

\* C16 witness: an unregister request was handled for a sink that was never
\* registered; its queue is open and the other sink is still counted.
C16_Witness ==
    \E c \in Sinks :
        /\ unregNoop[c] /\ regs[c] = 0
        /\ ~sendClosed[c] /\ closes[c] = 0
        /\ GetClientCount = 1
        /\ panicked = "none"

\* C17: a fan-out pass visits every sink registered when the payload is
\* taken, and the visit of a sink with room in its queue appends that payload
\* at the tail of the queue (a full queue is left as it is).
C17_BroadcastReachesEverySink ==
    [][/\ (hubPc = "select" /\ dispatched' # dispatched) =>
             IF clients = {}
             THEN hubPc' = "select"
             ELSE /\ hubPc' = "fanout"
                  /\ hubTodo' = clients
                  /\ hubMsg' = <<Head(broadcast)>>
       /\ \A c \in Sinks :
             (hubPc = "fanout" /\ c \in hubTodo /\ c \notin hubTodo') =>
                 /\ c \in clients
                 /\ send'[c] = IF Len(send[c]) < ClientSendBufferSize
                               THEN Append(send[c], hubMsg[1])
                               ELSE send[c]
       /\ hubPc = "fanout" =>
             /\ hubTodo' \subseteq hubTodo
             /\ hubPc' = "select" <=> hubTodo' = {}]_vars

\* C17 witness: a pass is over and every sink has the payload of that pass
\* at the tail of its queue, behind an earlier one.
C17_Witness ==
    /\ hubPc = "select"
    /\ clients = Sinks
    /\ dispatched # <<>>
    /\ \A c \in Sinks :
          /\ Len(send[c]) = 2
          /\ send[c][2] = dispatched[Len(dispatched)]

\* C18: a fan-out pass changes neither the Registry nor the open/closed state
\* of any queue; a sink found full only gets an eviction request, and the
\* Registry changes only in steps of the Hub loop outside a pass.
C18_FanoutOnlySchedulesRemoval ==
    [][/\ hubPc = "fanout" =>
             /\ clients' = clients
             /\ sendClosed' = sendClosed
             /\ closes' = closes
       /\ \A c \in Sinks :
             (hubPc = "fanout" /\ c \in hubTodo /\ c \notin hubTodo'
                 /\ Len(send[c]) >= ClientSendBufferSize) =>
                 /\ evict'[c] = evict[c] + 1
                 /\ c \in clients' /\ ~sendClosed'[c]
       /\ (clients' # clients \/ sendClosed' # sendClosed) =>
             hubPc = "select" /\ hubPc' = "select"]_vars

\* C18 witness: in the pass for the third payload a sink holding the first
\* two was found full; it has one eviction request and is still registered
\* with an open queue.
C18_Witness ==
    \E c \in Sinks :
        /\ hubPc = "fanout" /\ hubMsg = <<3>>
        /\ c \notin hubTodo
        /\ send[c] = <<1, 2>>
        /\ evict[c] = 1
        /\ c \in clients /\ ~sendClosed[c]

\* the symbols of the entries of a batch, in order
SymbolsOf(data) == [k \in 1 .. Len(data) |-> data[k].Symbol]

\* C19: batch order is first-insertion order: an entry never changes its
\* position in a MultiUpdate, an update of a symbol already present replaces
\* its entry in place, an update of a new symbol is appended, and a flush
\* serialises the entries in that order.
C19_BatchKeepsInsertionOrder ==
    [][/\ \A o \in 1 .. Len(heap) :
             /\ Len(heap'[o]) >= Len(heap[o])
             /\ SubSeq(SymbolsOf(heap'[o]), 1, Len(heap[o])) = SymbolsOf(heap[o])
       /\ (hPc = "update" /\ hPc' = "idle") =>
             LET d == heap[hRef]
                 pu == priceUpdate[1]
             IN IF \E k \in 1 .. Len(d) : d[k].Symbol = pu.Symbol
                THEN /\ Len(heap'[hRef]) = Len(d)
                     /\ \A k \in 1 .. Len(d) :
                           heap'[hRef][k] = IF d[k].Symbol = pu.Symbol
                                            THEN pu ELSE d[k]
                ELSE heap'[hRef] = Append(d, pu)
       /\ (flushPc = "marshal" /\ flushPc' = "send") =>
             [k \in 1 .. Len(jsonData'[1].data) |-> jsonData'[1].data[k].symbol]
                = SymbolsOf(heap[pendingUpdate])]_vars

\* C19 witness: three events in one window, the first for BTCUSDT, then
\* BTCUSDT at 101, then ETHUSDT at 50, were flushed as [BTCUSDT 101, ETHUSDT 50].
C19_Witness ==
    /\ flushPc = "send"
    /\ Len(heap) = 1
    /\ jsonData = <<[type |-> "multi_update",
                     data |-> <<[symbol |-> "BTCUSDT", price |-> 101,
                                 timestamp |-> 2],
                                [symbol |-> "ETHUSDT", price |-> 50,
                                 timestamp |-> 3]>>]>>

\* C20: a flush that finds the pending Batch absent or without entries hands
\* nothing to the Hub and leaves the pending Batch as it is.
C20_EmptyFlushEmitsNothing ==
    [][(flushPc = "check" /\ flushPc' # "check"
          /\ (pendingUpdate = 0 \/ Len(heap[pendingUpdate]) = 0)) =>
             /\ flushPc' = "select"
             /\ broadcast' = broadcast
             /\ pendingUpdate' = pendingUpdate
             /\ heap' = heap
             /\ jsonData' = jsonData]_vars

\* C20 witness: after an earlier batch was flushed and taken by the Hub, the
\* next tick finds no pending Batch.
C20_Witness ==
    /\ flushPc = "check"
    /\ pendingUpdate = 0
    /\ hPc = "idle"
    /\ dispatched # <<>>
    /\ broadcast = <<>>

C22_HandOffNonBlocking ==
    /\ [](flushPc = "send" /\ panicked = "none" => ENABLED FlushSend)
    /\ [][/\ (flushPc = "send" /\ flushPc' # "send") =>
                broadcast' = IF Len(broadcast) < BroadcastBufferSize
                             THEN Append(broadcast, jsonData[1])
                             ELSE broadcast
          /\ (flushPc = "marshal" /\ flushPc' = "send") =>
                Timestamps(heap[pendingUpdate]) \cap serialised = {}]_vars

\* C22 witness: the flush has just dropped its batch on a full intake.
C22_Witness ==
    /\ flushPc = "reset"
    /\ dispatched = <<>>
    /\ Len(broadcast) = BroadcastBufferSize
    /\ \A k \in 1 .. Len(broadcast) : broadcast[k] # jsonData[1]

\* C23: a start() that connected has returned only if its upstream handle is
\* closed or the context is cancelled; with an empty watch-list it returns in
\* its first step, without a connection, a ticker or a flush loop.
C23_StartBlocksUntilEndOrCancel ==
    /\ []((startPc = "returned" /\ subscribed # <<>>) =>
             (ctxDone \/ doneChannels[Len(doneChannels)] = "closed"))
    /\ []((startPc = "returned" /\ subscribed = <<>>) =>
             (flushPc = "none" /\ doneChannels = <<>>))
    /\ [][(startPc = "idle" /\ startPc' # "idle" /\ symbols = <<>>) =>
             /\ startPc' = "returned"
             /\ UNCHANGED <<doneChannels, subscribed, flushPc, ticker>>]_vars

\* C23 witness: start() was called with an emptied watch-list and returned
\* without creating the ticker, a connection or the flush loop.
C23_Witness ==
    /\ startPc = "returned"
    /\ symbols = <<>>
    /\ ticker = "none"
    /\ flushPc = "none"
    /\ doneChannels = <<>>

\* C24: once the context is cancelled, a running flush loop eventually
\* returns and a start() blocked in waitForShutdown eventually returns
\* (unless a panic ends the process first).
C24_CancellationReachesBothObservers ==
    /\ (ctxDone /\ flushPc \notin {"none", "exit"})
          ~> (flushPc = "exit" \/ panicked # "none")
    /\ (ctxDone /\ startPc = "waiting")
          ~> (startPc = "returned" \/ panicked # "none")

\* C24 witness: after one Stop() the flush loop has exited and start() has
\* returned.
C24_Witness ==
    /\ stops = 1
    /\ ctxDone
    /\ panicked = "none"
    /\ flushPc = "exit"
    /\ startPc = "returned"

\* the last frame written to the connection of c is a close frame
LastFrameIsClose(c) ==
    written[c] # <<>> /\ written[c][Len(written[c])] = CloseFrame

\* C25: a registered sink found full, whose writer runs, eventually has a
\* close frame written on its connection, unless the connection was closed
\* from the handler's side first; writes on an open connection succeed.
C25_EvictedSinkGetsCloseFrame ==
    \A c \in Sinks :
        (evict[c] > 0 /\ c \in clients /\ writerPc[c] = "run")
            ~> (LastFrameIsClose(c) \/ connClosed[c])

\* C25 witness: a sink was found full and evicted while its handler still
\* reads; its writer wrote the two queued payloads and then the close frame.
C25_Witness ==
    \E c \in Sinks :
        /\ connPc[c] = "read"
        /\ c \notin clients /\ closes[c] = 1
        /\ writerPc[c] = "done"
        /\ written[c] = <<TextFrame(1), TextFrame(2), CloseFrame>>

\* C26: when the read loop of a connection has ended, the handler's
\* unregister request is eventually accepted by the Hub, and from then on the
\* sink is not in the Registry and its queue is closed.
C26_TeardownRetiresSink ==
    /\ \A c \in Sinks :
          (connPc[c] = "unregister") ~> (connPc[c] \in {"close", "done"})
    /\ [](\A c \in Sinks :
             connPc[c] \in {"close", "done"} =>
                 (c \notin clients /\ sendClosed[c]))

\* C26 witness: a writer ended on a failed write without a close frame, the
\* handler's own unregister request then removed the sink and closed its
\* queue, and the handler is done.
C26_Witness ==
    \E c \in Sinks :
        /\ connPc[c] = "done"
        /\ writerPc[c] = "done" /\ ~LastFrameIsClose(c)
        /\ closes[c] = 1 /\ ~unregNoop[c] /\ evict[c] = 0
        /\ c \notin clients /\ sendClosed[c]

\* C27: per sink a writer is started at most once (by its handler, before
\* the read loop), only a step of the running writer adds to what is written
\* on the connection, and each such step adds one whole frame: the text frame
\* of one dispatched payload or the close frame.
C27_SingleWriterWholeFrames ==
    [][\A c \in Sinks :
          /\ (writerPc'[c] = "run" /\ writerPc[c] # "run") =>
                (writerPc[c] = "none" /\ connPc[c] = "spawn")
          /\ written'[c] # written[c] =>
                /\ writerPc[c] = "run"
                /\ \E f \in {CloseFrame} \cup
                             {TextFrame(dispatched[i]) : i \in 1 .. Len(dispatched)} :
                      written'[c] = Append(written[c], f)]_vars

\* C27 witness: the one writer of a sink has written two payloads while the
\* handler is in its read loop.
C27_Witness ==
    \E c \in Sinks :
        /\ connPc[c] = "read"
        /\ writerPc[c] = "run"
        /\ regs[c] = 1
        /\ written[c] = <<TextFrame(1), TextFrame(2)>>

\* C28: main reaches the teardown of the server only by the step in which
\* Stop() runs and returns: that step cancels the context and closes every
\* upstream handle recorded so far; during the teardown and after it Stop()
\* has been called and the context is cancelled.
C28_StopBeforeServerTeardown ==
    /\ [](mainPc \in {"shutdown", "exit"} => (stops >= 1 /\ ctxDone))
    /\ [][(mainPc' = "shutdown" /\ mainPc # "shutdown") =>
             /\ mainPc = "stop"
             /\ stops' = stops + 1
             /\ ctxDone'
             /\ Len(doneChannels') = Len(doneChannels)
             /\ \A k \in 1 .. Len(doneChannels) :
                   doneChannels'[k] = "closed"]_vars

\* C28 witness: main has shut the server down after Stop() closed the open
\* upstream handle, and the flush loop has exited.
C28_Witness ==
    /\ mainPc = "exit"
    /\ stops = 1
    /\ doneChannels = <<"closed">> /\ doneCloses = <<1>>
    /\ flushPc = "exit"

\* C29: GetCurrentPrice fails with "symbol not found" for a name that is not
\* in the watch-list, fails with "no price data yet" for a watched symbol that
\* has not received an event, and otherwise returns the cached price, which
\* is the LastPrice of the last event of the symbol.
C29_CurrentPriceThreeWay ==
    /\ [](\A name \in SymbolNames :
             LET r == GetCurrentPrice(name) IN
             IF \A k \in 1 .. Len(symbols) : symbols[k].Name # name
             THEN r = [price |-> "", err |-> "symbol not found"]
             ELSE IF symbols[findSymbol(name)].LastUpdateAt = 0
                  THEN r = [price |-> "", err |-> "no price data yet"]
                  ELSE /\ r.err = "nil"
                       /\ r.price # ""
                       /\ r.price = symbols[findSymbol(name)].LastPrice)
    /\ [][\A event \in Events(subscribed) :
             (EventArrives(event) /\ findSymbol(event.Symbol) # 0) =>
                 GetCurrentPrice(event.Symbol)' =
                     [price |-> event.LastPrice, err |-> "nil"]]_vars

\* C29 witness: one state with the three outcomes.
C29_Witness ==
    /\ GetCurrentPrice("BTCUSDT") = [price |-> "101", err |-> "nil"]
    /\ GetCurrentPrice("ETHUSDT") = [price |-> "", err |-> "no price data yet"]
    /\ GetCurrentPrice("SOLUSDT") = [price |-> "", err |-> "symbol not found"]
    /\ GetSymbols = <<"BTCUSDT", "ETHUSDT">>

\* C30: the symbols of the upstream subscription are set once, by start(), to
\* the watch-list of that moment; AddSymbol and RemoveSymbol change the
\* watch-list and nothing else.
C30_WatchlistEditsLeaveSubscription ==
    [][/\ subscribed' # subscribed =>
             (startPc = "idle" /\ subscribed = <<>> /\ subscribed' = GetSymbols)
       /\ \A name \in WatchNames :
             (AddSymbol(name) \/ RemoveSymbol(name)) =>
                 UNCHANGED <<subscribed, doneChannels, doneCloses, startPc,
                             ctxDone, flushPc, ticker>>]_vars

\* C30 witness: with the subscription for both default symbols open, one of
\* them was removed from the watch-list and events went on.
C30_Witness ==
    /\ doneChannels = <<"open">>
    /\ subscribed = <<"BTCUSDT", "ETHUSDT">>
    /\ GetSymbols = <<"BTCUSDT">>
    /\ hPc = "idle"
    /\ lastEvent["ETHUSDT"] > 0

\* the number of entries of the watch-list equal to the Symbol r
CountOf(syms, r) == Cardinality({k \in 1 .. Len(syms) : syms[k] = r})

\* C31: no two entries of the watch-list have the same name.
C31_SymbolNamesUnique ==
    \A j, k \in 1 .. Len(symbols) :
        symbols[j].Name = symbols[k].Name => j = k

\* C39: RemoveSymbol(name) with the name in the watch-list returns true and
\* removes one entry of that name, every other entry being kept with its
\* data; with the name absent it returns false and the watch-list is as it
\* was.
C39_RemoveSymbolExactlyOne ==
    [][\A name \in SymbolNames :
          RemoveSymbol(name) =>
              IF \E k \in 1 .. Len(symbols) : symbols[k].Name = name
              THEN /\ removed'
                   /\ Len(symbols') = Len(symbols) - 1
                   /\ \E gone \in {symbols[k] : k \in 1 .. Len(symbols)} :
                         /\ gone.Name = name
                         /\ \A k \in 1 .. Len(symbols) :
                               CountOf(symbols', symbols[k]) =
                                   CountOf(symbols, symbols[k]) -
                                       (IF symbols[k] = gone THEN 1 ELSE 0)
              ELSE /\ ~removed'
                   /\ symbols' = symbols]_vars

\* C39 witness: the first of three symbols was removed; the last one, added
\* at run time, took its place and the one in the middle, with its price,
\* stayed.
C39_Witness ==
    /\ removed
    /\ symbols = <<[Name |-> "ETHUSDT", LastPrice |-> "", LastUpdateAt |-> 0],
                   [Name |-> "ETHUSDT", LastPrice |-> "50", LastUpdateAt |-> 1]>>

\* C32: the queue of a sink is closed at most once and no close of a closed
\* channel occurs; of the eviction requests and the teardown request for one
\* sink, the one processed while the sink is in the Registry closes the queue
\* and lowers the count by one, and one processed afterwards changes nothing.
C32_QueueClosedAtMostOnce ==
    /\ [](\A c \in Sinks : closes[c] <= 1)
    /\ [](panicked # "close of closed channel")
    /\ [][\A c \in Sinks :
            (HubEvict(c) \/ HubUnregister(c)) =>
                IF c \in clients
                THEN /\ closes[c] = 0 /\ closes'[c] = 1
                     /\ ~sendClosed[c] /\ sendClosed'[c]
                     /\ GetClientCount' = GetClientCount - 1
                ELSE /\ UNCHANGED <<clients, closes, sendClosed, send>>
                     /\ panicked' = "none"]_vars

\* C32 witness: for one sink two eviction requests were spawned and the
\* handler's teardown request was made; the teardown request and one eviction
\* request are processed, one of them as a no-op, the queue was closed once,
\* and the other eviction request is still to be processed.
C32_Witness ==
    \E c \in Sinks :
        /\ connPc[c] \in {"close", "done"}
        /\ evict[c] = 1
        /\ unregNoop[c]
        /\ closes[c] = 1
        /\ c \notin clients
        /\ hubPc = "select"

\* C33: once a payload was skipped for a sink because its queue was full (an
\* eviction request for it is pending), nothing more is enqueued to the sink.
C33_NoEnqueueAfterSkip ==
    [][\A c \in Sinks :
          evict[c] > 0 => Len(send'[c]) <= Len(send[c])]_vars

\* C34: what is queued for a sink when its queue is closed is not discarded:
\* a writer step on a closed queue writes the head of the queue while there
\* is one and the close frame only when the queue is empty, and, writes on an
\* open connection succeeding, the writer eventually has emptied the queue
\* and written the close frame (unless the handler closed the connection).
C34_QueuedPayloadsBeforeCloseFrame ==
    /\ [][\A c \in Sinks :
            (sendClosed[c] /\ written'[c] # written[c]) =>
                IF send[c] # <<>>
                THEN /\ written'[c] = Append(written[c], TextFrame(Head(send[c])))
                     /\ send'[c] = Tail(send[c])
                ELSE written'[c] = Append(written[c], CloseFrame)]_vars
    /\ [](\A c \in Sinks : LastFrameIsClose(c) => send[c] = <<>>)
    /\ \A c \in Sinks :
          (sendClosed[c] /\ writerPc[c] = "run")
              ~> ((send[c] = <<>> /\ LastFrameIsClose(c)) \/ connClosed[c])

\* C34 witness: while one sink was evicted with two payloads queued, which
\* its writer wrote before the close frame, the other sink got all three.
C34_Witness ==
    \E c, d \in Sinks :
        /\ written[c] = <<TextFrame(1), TextFrame(2), CloseFrame>>
        /\ evict[c] = 0 /\ closes[c] = 1 /\ connPc[c] = "read"
        /\ written[d] = <<TextFrame(1), TextFrame(2), TextFrame(3)>>

\* no element occurs twice in the sequence
NoDuplicates(q) == \A i, j \in 1 .. Len(q) : q[i] = q[j] => i = j

\* C35: a payload gets into the queue of a sink only in the fan-out pass of
\* that payload, only if the sink is in the Registry, and at most once per
\* pass; no payload is dispatched twice, so no sink gets a payload twice.
C35_AtMostOncePerSink ==
    /\ [](NoDuplicates(dispatched))
    /\ [](\A c \in Sinks : NoDuplicates(Payloads(written[c]) \o send[c]))
    /\ [][\A c \in Sinks :
            Len(send'[c]) > Len(send[c]) =>
                /\ hubPc = "fanout"
                /\ hubMsg = <<dispatched[Len(dispatched)]>>
                /\ c \in clients /\ c \in hubTodo /\ c \notin hubTodo'
                /\ send'[c] = Append(send[c], hubMsg[1])]_vars
    /\ [][hubTodo' \subseteq hubTodo \/
            (hubPc = "select" /\ hubTodo' = clients
                /\ dispatched' = Append(dispatched, Head(broadcast)))]_vars

\* C35 witness: a sink registered after the first payload's pass got the
\* second payload only, while the other sink got both.
C35_Witness ==
    \E c, d \in Sinks :
        /\ dispatched = <<1, 2>>
        /\ hubPc = "select"
        /\ Payloads(written[c]) \o send[c] = <<1, 2>>
        /\ Payloads(written[d]) \o send[d] = <<2>>
        /\ writerPc[d] = "none"

\* the batches handed to the Hub so far, in order
Handed == dispatched \o broadcast
\* the Timestamps of the updates of a serialised batch
StampsOf(json) == {json.data[k].timestamp : k \in 1 .. Len(json.data)}

\* C36: no update is in two of the batches handed to the Hub, and once the
\* flush has reset the pending Batch no update of a handed batch is pending.
C36_UpdateInAtMostOneBatch ==
    /\ \A i, j \in 1 .. Len(Handed) :
          i # j => StampsOf(Handed[i]) \cap StampsOf(Handed[j]) = {}
    /\ flushPc # "reset" =>
          \A i \in 1 .. Len(Handed) :
              StampsOf(Handed[i]) \cap Timestamps(PendingData) = {}

\* C36 witness: two batches were handed to the Hub and a third one is
\* pending.
C36_Witness ==
    /\ Len(Handed) = 2
    /\ flushPc = "select"
    /\ hPc = "idle"
    /\ pendingUpdate # 0 /\ Len(PendingData) = 1

\* C37: when start() has returned after launching the flush loop, the flush
\* loop eventually terminates (unless a panic ends the process).
C37_FlushLoopEndsAfterStart ==
    (startPc = "returned" /\ flushPc # "none")
        ~> (flushPc = "exit" \/ panicked # "none")

\* C38: the Run loop always gets back to its select: a fan-out pass can
\* take its next step whatever the queues hold and ends, and every
\* registration, teardown request and eviction request is accepted in the end.
C38_HubLoopDeadlockFree ==
    /\ [](hubPc = "fanout" =>
            (hubTodo # {} /\ \A c \in hubTodo : ENABLED HubFanout(c)))
    /\ (hubPc = "fanout") ~> (hubPc = "select")
    /\ \A c \in Sinks :
          /\ (connPc[c] = "register") ~> (connPc[c] = "spawn")
          /\ (connPc[c] = "unregister") ~> (connPc[c] = "close")
          /\ (evict[c] > 0) ~> (evict[c] = 0)

\* C38 witness: the loop is back at its select after a pass that found one
\* sink full; the eviction request of that sink was accepted, and so was the
\* registration of the other sink.
C38_Witness ==
    \E c, d \in Sinks :
        /\ hubPc = "select"
        /\ Len(dispatched) = 3
        /\ Len(send[c]) = ClientSendBufferSize
        /\ c \notin clients /\ closes[c] = 1 /\ evict[c] = 0
        /\ connPc[c] = "spawn"
        /\ d \in clients /\ regs[d] = 1 /\ connPc[d] = "read"

====
